---- MODULE Spec2Model ----
(***************************************************************************)
(* Credential verification of examples/fastapi_auth_demo/app.py.           *)
(*                                                                         *)
(* A Python str is a sequence of Latin-1 code points (0..255): header and  *)
(* cookie values reach the application decoded as Latin-1, so every byte   *)
(* a client can put on the wire is a character the verifiers may see.      *)
(* One request is in flight at a time: the client sends it, the route's    *)
(* handler (with its security dependency) answers it, the client receives  *)
(* the answer and keeps the cookie or access token it carries.             *)
(***************************************************************************)
EXTENDS Integers, Sequences, FiniteSets, TLC

VARIABLES
    trust,          \* the module globals DEMO_* (the trust store)
    request,        \* the request in flight, or NoRequest
    response,       \* the answer to the request in flight, or NoResponse
    cookie_jar,     \* the client's session_token cookie, or None
    access_token,   \* the access token the client last received, or None
    probe           \* history: one earlier (request, response) pair, or ProbeOff / ProbeUnset

vars == <<trust, request, response, cookie_jar, access_token, probe>>

(***************************************************************************)
(* Bounds of the input space.                                              *)
(***************************************************************************)
\* The first MaxMutPos characters of every secret (and its last one) are mutated.
MaxMutPos == 2

(***************************************************************************)
(* Text.                                                                   *)
(***************************************************************************)
\* Python's None for an Optional[str]; no str equals it.
None == <<-1>>

\* bool(value) of an Optional[str]: None and "" are falsy.
Truthy(s) == s # None /\ Len(s) > 0

\* A str that only holds ASCII characters.
IsAscii(s) == \A i \in 1..Len(s) : s[i] < 128

\* str.lower() on Latin-1 text.
lower(s) ==
    [i \in 1..Len(s) |->
        IF s[i] \in 65..90 \/ (s[i] \in 192..222 /\ s[i] # 215)
        THEN s[i] + 32 ELSE s[i]]

\* str.partition(sep) for a one-character separator: (head, found, tail).
partition(s, sep) ==
    IF \E i \in 1..Len(s) : s[i] = sep
    THEN LET k == CHOOSE i \in 1..Len(s) :
                      s[i] = sep /\ \A j \in 1..(i-1) : s[j] # sep
         IN  [head |-> SubSeq(s, 1, k-1), found |-> TRUE,
              tail |-> SubSeq(s, k+1, Len(s))]
    ELSE [head |-> s, found |-> FALSE, tail |-> <<>>]

\* secrets.compare_digest(a, b) on two str: "TypeError" when either holds a
\* non-ASCII character, else whether they are equal.
compare_digest(a, b) ==
    IF ~(IsAscii(a) /\ IsAscii(b)) THEN "TypeError"
    ELSE IF a = b THEN "True" ELSE "False"

(***************************************************************************)
(* Base64 (the Basic scheme's transport encoding).                         *)
(***************************************************************************)
\* The value of a base64 digit, 64 for a character outside the alphabet.
b64_value(c) ==
    IF c \in 65..90 THEN c - 65
    ELSE IF c \in 97..122 THEN c - 71
    ELSE IF c \in 48..57 THEN c + 4
    ELSE IF c = 43 THEN 62
    ELSE IF c = 47 THEN 63
    ELSE 64

b64_digit(v) ==
    IF v < 26 THEN v + 65
    ELSE IF v < 52 THEN v + 71
    ELSE IF v < 62 THEN v - 4
    ELSE IF v = 62 THEN 43 ELSE 47

\* What a failed decode yields (binascii.Error, ValueError, UnicodeDecodeError).
DecodeError == <<-2>>

\* binascii.a2b_base64 (non-strict): characters outside the alphabet are
\* skipped, decoding stops at sufficient padding, leftover digits are an error.
RECURSIVE a2b_base64(_, _, _, _, _, _)
a2b_base64(s, i, quad_pos, leftchar, pads, out) ==
    IF i > Len(s)
    THEN IF quad_pos # 0 THEN DecodeError ELSE out
    ELSE LET c == s[i]
             d == b64_value(c)
         IN  IF c = 61
             THEN IF quad_pos >= 2 /\ quad_pos + pads + 1 >= 4
                  THEN out
                  ELSE a2b_base64(s, i + 1, quad_pos, leftchar,
                                  IF quad_pos >= 2 THEN pads + 1 ELSE pads, out)
             ELSE IF d = 64
             THEN a2b_base64(s, i + 1, quad_pos, leftchar, pads, out)
             ELSE IF quad_pos = 0
             THEN a2b_base64(s, i + 1, 1, d, 0, out)
             ELSE IF quad_pos = 1
             THEN a2b_base64(s, i + 1, 2, d % 16, 0,
                             Append(out, leftchar * 4 + d \div 16))
             ELSE IF quad_pos = 2
             THEN a2b_base64(s, i + 1, 3, d % 4, 0,
                             Append(out, leftchar * 16 + d \div 4))
             ELSE a2b_base64(s, i + 1, 0, 0, 0, Append(out, leftchar * 64 + d))

\* b64decode(param).decode("ascii"): the param must be ASCII text, the
\* decoded bytes must be ASCII.
b64decode_ascii(param) ==
    IF ~IsAscii(param) THEN DecodeError
    ELSE LET data == a2b_base64(param, 1, 0, 0, 0, <<>>)
         IN  IF data = DecodeError \/ ~IsAscii(data) THEN DecodeError ELSE data

\* base64.b64encode, as a client applies it to "username:password".
RECURSIVE b64encode(_)
b64encode(b) ==
    IF Len(b) = 0 THEN <<>>
    ELSE IF Len(b) = 1
    THEN <<b64_digit(b[1] \div 4), b64_digit((b[1] % 4) * 16), 61, 61>>
    ELSE IF Len(b) = 2
    THEN <<b64_digit(b[1] \div 4),
           b64_digit((b[1] % 4) * 16 + b[2] \div 16),
           b64_digit((b[2] % 16) * 4), 61>>
    ELSE <<b64_digit(b[1] \div 4),
           b64_digit((b[1] % 4) * 16 + b[2] \div 16),
           b64_digit((b[2] % 16) * 4 + b[3] \div 64),
           b64_digit(b[3] % 64)>> \o b64encode(SubSeq(b, 4, Len(b)))

(***************************************************************************)
(* The trust store: the module globals of lines 23-30.                     *)
(***************************************************************************)
DEMO_BASIC_USERNAME == <<97, 100, 109, 105, 110>>  \* "admin"
DEMO_BASIC_PASSWORD ==
    <<97, 100, 109, 105, 110, 45, 112, 97, 115, 115, 119, 111, 114, 100>>  \* "admin-password"
DEMO_BEARER_TOKEN ==
    <<100, 101, 109, 111, 45, 98, 101, 97, 114, 101, 114, 45, 116, 111, 107, 101, 110>>  \* "demo-bearer-token"
DEMO_HEADER_API_KEY ==
    <<100, 101, 109, 111, 45, 104, 101, 97, 100, 101, 114, 45, 97, 112, 105, 45, 107, 101, 121>>  \* "demo-header-api-key"
DEMO_SESSION_TOKEN ==
    <<100, 101, 109, 111, 45, 115, 101, 115, 115, 105, 111, 110, 45, 116, 111, 107, 101, 110>>  \* "demo-session-token"
DEMO_OAUTH_USERNAME == <<111, 97, 117, 116, 104, 45, 117, 115, 101, 114>>  \* "oauth-user"
DEMO_OAUTH_PASSWORD ==
    <<111, 97, 117, 116, 104, 45, 112, 97, 115, 115, 119, 111, 114, 100>>  \* "oauth-password"
DEMO_OAUTH_TOKEN ==
    <<100, 101, 109, 111, 45, 111, 97, 117, 116, 104, 45, 116, 111, 107, 101, 110>>  \* "demo-oauth-token"

\* The globals as the module leaves them after import.
TrustStore ==
    [DEMO_BASIC_USERNAME |-> DEMO_BASIC_USERNAME,
     DEMO_BASIC_PASSWORD |-> DEMO_BASIC_PASSWORD,
     DEMO_BEARER_TOKEN   |-> DEMO_BEARER_TOKEN,
     DEMO_HEADER_API_KEY |-> DEMO_HEADER_API_KEY,
     DEMO_SESSION_TOKEN  |-> DEMO_SESSION_TOKEN,
     DEMO_OAUTH_USERNAME |-> DEMO_OAUTH_USERNAME,
     DEMO_OAUTH_PASSWORD |-> DEMO_OAUTH_PASSWORD,
     DEMO_OAUTH_TOKEN    |-> DEMO_OAUTH_TOKEN]

(***************************************************************************)
(* Status codes and scheme tokens.                                         *)
(***************************************************************************)
HTTP_200_OK == 200
HTTP_201_CREATED == 201
HTTP_401_UNAUTHORIZED == 401
HTTP_403_FORBIDDEN == 403
HTTP_500_INTERNAL_SERVER_ERROR == 500

BASIC_LOWER == <<98, 97, 115, 105, 99>>          \* "basic"
BEARER_LOWER == <<98, 101, 97, 114, 101, 114>>   \* "bearer"

(***************************************************************************)
(* What a dependency yields: a value, an HTTPException, or a TypeError     *)
(* that no handler catches.                                                *)
(***************************************************************************)
NoCredentials ==
    [present |-> FALSE, scheme |-> <<>>, credentials |-> <<>>,
     username |-> <<>>, password |-> <<>>]

Return(v) ==
    [kind |-> "return", status_code |-> 0, detail |-> "",
     www_authenticate |-> "", value |-> v]

HTTPException(status_code, detail, www_authenticate) ==
    [kind |-> "HTTPException", status_code |-> status_code, detail |-> detail,
     www_authenticate |-> www_authenticate, value |-> NoCredentials]

TypeError ==
    [kind |-> "TypeError", status_code |-> 0, detail |-> "",
     www_authenticate |-> "", value |-> NoCredentials]

(***************************************************************************)
(* The security scheme objects of lines 32-44 (credential extraction).     *)
(***************************************************************************)
\* fastapi.security.utils.get_authorization_scheme_param
get_authorization_scheme_param(authorization) ==
    IF ~Truthy(authorization) THEN [scheme |-> <<>>, param |-> <<>>]
    ELSE LET p == partition(authorization, 32)
         IN  [scheme |-> p.head, param |-> p.tail]

\* HTTPBasic(auto_error=False): None without a Basic Authorization header; a
\* 401 of its own for a payload that does not decode to "username:password".
basic_auth(req) ==
    LET sp == get_authorization_scheme_param(req.authorization)
        invalid_user_credentials_exc ==
            HTTPException(HTTP_401_UNAUTHORIZED,
                          "Invalid authentication credentials", "Basic")
    IN  IF ~Truthy(req.authorization) \/ lower(sp.scheme) # BASIC_LOWER
        THEN Return(NoCredentials)
        ELSE LET data == b64decode_ascii(sp.param)
                 up == partition(data, 58)
             IN  IF data = DecodeError THEN invalid_user_credentials_exc
                 ELSE IF ~up.found THEN invalid_user_credentials_exc
                 ELSE Return([present |-> TRUE, scheme |-> sp.scheme,
                              credentials |-> sp.param,
                              username |-> up.head, password |-> up.tail])

\* HTTPBearer(auto_error=False): None unless the header is "<bearer> <token>".
bearer_auth(req) ==
    LET sp == get_authorization_scheme_param(req.authorization)
    IN  IF ~(Truthy(req.authorization) /\ Len(sp.scheme) > 0 /\ Len(sp.param) > 0)
        THEN Return(NoCredentials)
        ELSE IF lower(sp.scheme) # BEARER_LOWER
        THEN Return(NoCredentials)
        ELSE Return([present |-> TRUE, scheme |-> sp.scheme,
                     credentials |-> sp.param,
                     username |-> <<>>, password |-> <<>>])

\* APIKeyHeader(name="x-api-key", auto_error=False): None for a missing or empty header.
api_key_header_auth(req) ==
    IF ~Truthy(req.x_api_key) THEN None ELSE req.x_api_key

\* APIKeyCookie(name="session_token", auto_error=False): None for a missing or empty cookie.
api_key_cookie_auth(req) ==
    IF ~Truthy(req.session_token) THEN None ELSE req.session_token

\* OAuth2PasswordBearer(tokenUrl="/oauth/token"): auto_error is on, so a
\* missing or non-bearer Authorization header is a 401 of its own.
oauth2_auth(req) ==
    LET sp == get_authorization_scheme_param(req.authorization)
    IN  IF ~Truthy(req.authorization) \/ lower(sp.scheme) # BEARER_LOWER
        THEN HTTPException(HTTP_401_UNAUTHORIZED, "Not authenticated", "Bearer")
        ELSE Return([present |-> TRUE, scheme |-> sp.scheme,
                     credentials |-> sp.param,
                     username |-> <<>>, password |-> <<>>])

(***************************************************************************)
(* The verifiers (lines 154-258). t is the trust store they read.          *)
(***************************************************************************)
\* Mutant: the verdict is "user or password" instead of "user and password".
require_basic_auth_either(t, req) ==
    LET dep == basic_auth(req)
        credentials == dep.value
        is_valid_user == compare_digest(credentials.username, t.DEMO_BASIC_USERNAME)
        is_valid_password == compare_digest(credentials.password, t.DEMO_BASIC_PASSWORD)
    IN  IF dep.kind # "return" THEN dep
        ELSE IF ~credentials.present
        THEN HTTPException(HTTP_401_UNAUTHORIZED,
                           "Missing basic authentication credentials.", "Basic")
        ELSE IF is_valid_user = "TypeError" \/ is_valid_password = "TypeError"
        THEN TypeError
        ELSE IF ~(is_valid_user = "True" \/ is_valid_password = "True")
        THEN HTTPException(HTTP_401_UNAUTHORIZED,
                           "Invalid basic authentication credentials.", "Basic")
        ELSE Return(credentials)

require_basic_auth(t, req) ==
    LET dep == basic_auth(req)
        credentials == dep.value
        is_valid_user == compare_digest(credentials.username, t.DEMO_BASIC_USERNAME)
        is_valid_password == compare_digest(credentials.password, t.DEMO_BASIC_PASSWORD)
    IN  IF dep.kind # "return" THEN dep
        ELSE IF ~credentials.present
        THEN HTTPException(HTTP_401_UNAUTHORIZED,
                           "Missing basic authentication credentials.", "Basic")
        ELSE IF is_valid_user = "TypeError" \/ is_valid_password = "TypeError"
        THEN TypeError
        ELSE IF ~(is_valid_user = "True" /\ is_valid_password = "True")
        THEN HTTPException(HTTP_401_UNAUTHORIZED,
                           "Invalid basic authentication credentials.", "Basic")
        ELSE Return(credentials)

\* Mutant: absent credentials are not told apart from wrong ones.
require_bearer_token_no_missing(t, req) ==
    LET credentials == bearer_auth(req).value
        same == compare_digest(credentials.credentials, t.DEMO_BEARER_TOKEN)
    IN  IF same = "TypeError" THEN TypeError
        ELSE IF ~credentials.present \/ same # "True"
        THEN HTTPException(HTTP_401_UNAUTHORIZED, "Invalid bearer token.", "Bearer")
        ELSE Return(credentials)

require_bearer_token(t, req) ==
    LET credentials == bearer_auth(req).value
        same == compare_digest(credentials.credentials, t.DEMO_BEARER_TOKEN)
    IN  IF ~credentials.present \/ lower(credentials.scheme) # BEARER_LOWER
        THEN HTTPException(HTTP_401_UNAUTHORIZED, "Missing bearer token.", "Bearer")
        ELSE IF same = "TypeError" THEN TypeError
        ELSE IF same # "True"
        THEN HTTPException(HTTP_401_UNAUTHORIZED, "Invalid bearer token.", "Bearer")
        ELSE Return(credentials)

require_api_key_header(t, req) ==
    LET x_api_key == api_key_header_auth(req)
        same == compare_digest(x_api_key, t.DEMO_HEADER_API_KEY)
    IN  IF x_api_key = None
        THEN HTTPException(HTTP_403_FORBIDDEN, "Missing x-api-key header.", "")
        ELSE IF same = "TypeError" THEN TypeError
        ELSE IF same # "True"
        THEN HTTPException(HTTP_403_FORBIDDEN, "Invalid x-api-key header.", "")
        ELSE Return([NoCredentials EXCEPT !.present = TRUE, !.credentials = x_api_key])

\* Mutant: the cookie is only required to be there.
require_session_cookie_presence_only(t, req) ==
    LET session_token == api_key_cookie_auth(req)
    IN  IF session_token = None
        THEN HTTPException(HTTP_403_FORBIDDEN, "Missing session_token cookie.", "")
        ELSE Return([NoCredentials EXCEPT !.present = TRUE, !.credentials = session_token])

require_session_cookie(t, req) ==
    LET session_token == api_key_cookie_auth(req)
        same == compare_digest(session_token, t.DEMO_SESSION_TOKEN)
    IN  IF session_token = None
        THEN HTTPException(HTTP_403_FORBIDDEN, "Missing session_token cookie.", "")
        ELSE IF same = "TypeError" THEN TypeError
        ELSE IF same # "True"
        THEN HTTPException(HTTP_403_FORBIDDEN, "Invalid session_token cookie.", "")
        ELSE Return([NoCredentials EXCEPT !.present = TRUE, !.credentials = session_token])

require_oauth2_token(t, req) ==
    LET dep == oauth2_auth(req)
        token == dep.value.credentials
        same == compare_digest(token, t.DEMO_OAUTH_TOKEN)
    IN  IF dep.kind # "return" THEN dep
        ELSE IF same = "TypeError" THEN TypeError
        ELSE IF same # "True"
        THEN HTTPException(HTTP_401_UNAUTHORIZED,
                           "Invalid OAuth2 access token.", "Bearer")
        ELSE Return(dep.value)

\* Mutant: exhaustion raises the signal of the strategy tried last.
require_bearer_or_api_key_last_signal(t, req) ==
    LET credentials == bearer_auth(req).value
        x_api_key == api_key_header_auth(req)
        try_bearer == credentials.present /\ lower(credentials.scheme) = BEARER_LOWER
        bearer_same == compare_digest(credentials.credentials, t.DEMO_BEARER_TOKEN)
        key_same == compare_digest(x_api_key, t.DEMO_HEADER_API_KEY)
    IN  IF try_bearer /\ bearer_same = "TypeError" THEN TypeError
        ELSE IF try_bearer /\ bearer_same = "True" THEN Return("bearer")
        ELSE IF Truthy(x_api_key) /\ key_same = "TypeError" THEN TypeError
        ELSE IF Truthy(x_api_key) /\ key_same = "True" THEN Return("api_key_header")
        ELSE HTTPException(HTTP_403_FORBIDDEN,
                           "Provide a valid bearer token or x-api-key header.", "")

\* Returns the name of the scheme that authenticated the request.
require_bearer_or_api_key(t, req) ==
    LET credentials == bearer_auth(req).value
        x_api_key == api_key_header_auth(req)
        try_bearer == credentials.present /\ lower(credentials.scheme) = BEARER_LOWER
        bearer_same == compare_digest(credentials.credentials, t.DEMO_BEARER_TOKEN)
        key_same == compare_digest(x_api_key, t.DEMO_HEADER_API_KEY)
    IN  IF try_bearer /\ bearer_same = "TypeError" THEN TypeError
        ELSE IF try_bearer /\ bearer_same = "True" THEN Return("bearer")
        ELSE IF Truthy(x_api_key) /\ key_same = "TypeError" THEN TypeError
        ELSE IF Truthy(x_api_key) /\ key_same = "True" THEN Return("api_key_header")
        ELSE HTTPException(HTTP_401_UNAUTHORIZED,
                           "Provide a valid bearer token or x-api-key header.",
                           "Bearer")

(***************************************************************************)
(* Requests and responses.                                                 *)
(***************************************************************************)
\* A request: the route it addresses, its Authorization and x-api-key
\* headers, its session_token cookie, and the username/password fields of
\* its body (the login and token routes); None where it carries none.
NoRequest ==
    [route |-> "none", authorization |-> None, x_api_key |-> None,
     session_token |-> None, username |-> None, password |-> None]

\* A response: status, the detail of an error (or the message of a success),
\* the WWW-Authenticate header ("" when there is none), the subject and
\* auth_method of a profile body, the cookie set, the access token returned.
NoResponse ==
    [status_code |-> 0, detail |-> "", www_authenticate |-> "",
     subject |-> "", auth_method |-> "", set_cookie |-> None,
     access_token |-> None]

\* The response the framework builds from what a dependency or handler
\* raised: an HTTPException as it is, anything else as a plain 500.
exception_response(raised) ==
    IF raised.kind = "HTTPException"
    THEN [NoResponse EXCEPT !.status_code = raised.status_code,
                            !.detail = raised.detail,
                            !.www_authenticate = raised.www_authenticate]
    ELSE [NoResponse EXCEPT !.status_code = HTTP_500_INTERNAL_SERVER_ERROR,
                            !.detail = "Internal Server Error"]

(***************************************************************************)
(* The route handlers (lines 293-403), each with its security dependency.  *)
(* Request bodies are taken to pass schema validation.                     *)
(***************************************************************************)
create_depot(t, req) ==
    LET dep == require_basic_auth(t, req)
    IN  IF dep.kind # "return" THEN exception_response(dep)
        ELSE [NoResponse EXCEPT !.status_code = HTTP_201_CREATED]

bearer_profile(t, req) ==
    LET dep == require_bearer_token(t, req)
    IN  IF dep.kind # "return" THEN exception_response(dep)
        ELSE [NoResponse EXCEPT !.status_code = HTTP_200_OK,
                                !.subject = "operator-41",
                                !.auth_method = "bearer"]

header_key_metrics(t, req) ==
    LET dep == require_api_key_header(t, req)
    IN  IF dep.kind # "return" THEN exception_response(dep)
        ELSE [NoResponse EXCEPT !.status_code = HTTP_200_OK]

session_login(t, req) ==
    IF req.username # t.DEMO_BASIC_USERNAME \/ req.password # t.DEMO_BASIC_PASSWORD
    THEN [NoResponse EXCEPT !.status_code = HTTP_401_UNAUTHORIZED,
                            !.detail = "Invalid credentials."]
    ELSE [NoResponse EXCEPT !.status_code = HTTP_200_OK,
                            !.detail = "Session cookie issued.",
                            !.set_cookie = t.DEMO_SESSION_TOKEN]

cookie_incidents(t, req) ==
    LET dep == require_session_cookie(t, req)
    IN  IF dep.kind # "return" THEN exception_response(dep)
        ELSE [NoResponse EXCEPT !.status_code = HTTP_200_OK]

oauth_token(t, req) ==
    IF req.username # t.DEMO_OAUTH_USERNAME \/ req.password # t.DEMO_OAUTH_PASSWORD
    THEN [NoResponse EXCEPT !.status_code = HTTP_401_UNAUTHORIZED,
                            !.detail = "Invalid OAuth username/password."]
    ELSE [NoResponse EXCEPT !.status_code = HTTP_200_OK,
                            !.access_token = t.DEMO_OAUTH_TOKEN]

oauth_profile(t, req) ==
    LET dep == require_oauth2_token(t, req)
    IN  IF dep.kind # "return" THEN exception_response(dep)
        ELSE [NoResponse EXCEPT !.status_code = HTTP_200_OK,
                                !.subject = "dispatcher-7",
                                !.auth_method = "oauth2-password"]

create_dispatch(t, req) ==
    LET dep == require_oauth2_token(t, req)
    IN  IF dep.kind # "return" THEN exception_response(dep)
        ELSE [NoResponse EXCEPT !.status_code = HTTP_201_CREATED]

hybrid_alert(t, req) ==
    LET dep == require_bearer_or_api_key(t, req)
    IN  IF dep.kind # "return" THEN exception_response(dep)
        ELSE [NoResponse EXCEPT !.status_code = HTTP_200_OK,
                                !.detail = "Hybrid-authenticated via {auth_method}.",
                                !.auth_method = dep.value]

(***************************************************************************)
(* The requests a client sends.                                            *)
(***************************************************************************)
ProtectedRoutes ==
    {"create_depot", "bearer_profile", "header_key_metrics", "cookie_incidents",
     "oauth_profile", "create_dispatch", "hybrid_alert"}

IssuingRoutes == {"session_login", "oauth_token"}

\* c with bit b (a power of two) flipped.
FlipBit(c, b) == IF (c \div b) % 2 = 1 THEN c - b ELSE c + b

\* The bits flipped: the lowest, the letter-case bit, and the highest (which
\* makes an ASCII character a non-ASCII one).
MutBits == {1, 32, 128}

MutPositions(s) == ((1..MaxMutPos) \cup {Len(s)}) \cap (1..Len(s))

\* Single-character mutations of s, s without its last character, s with one more.
Mutations(s) ==
    {[s EXCEPT ![i] = FlipBit(s[i], b)] : i \in MutPositions(s), b \in MutBits}
        \cup {SubSeq(s, 1, Len(s) - 1), Append(s, 120)}

\* Two of them: the first letter in the other case, and made non-ASCII.
FewMutations(s) == {[s EXCEPT ![1] = FlipBit(s[1], b)] : b \in {32, 128}}

SP == <<32>>
COLON == <<58>>
BasicSpellings == {<<66, 97, 115, 105, 99>>, BASIC_LOWER, <<66, 65, 83, 73, 67>>}
BearerSpellings == {<<66, 101, 97, 114, 101, 114>>, BEARER_LOWER, <<66, 69, 65, 82, 69, 82>>}
Basic == <<66, 97, 115, 105, 99>>         \* "Basic"
Bearer == <<66, 101, 97, 114, 101, 114>>  \* "Bearer"
Token == <<84, 111, 107, 101, 110>>       \* "Token"

\* The Authorization header of HTTP Basic for a username and a password.
BasicHeader(spelling, username, password) ==
    spelling \o SP \o b64encode(username \o COLON \o password)

BearerHeader(spelling, token) == spelling \o SP \o token

BasicPairs ==
    ({DEMO_BASIC_USERNAME} \cup Mutations(DEMO_BASIC_USERNAME)) \X {DEMO_BASIC_PASSWORD}
        \cup {DEMO_BASIC_USERNAME} \X Mutations(DEMO_BASIC_PASSWORD)
        \cup FewMutations(DEMO_BASIC_USERNAME) \X FewMutations(DEMO_BASIC_PASSWORD)
        \cup {<<DEMO_OAUTH_USERNAME, DEMO_OAUTH_PASSWORD>>}

BasicAuthorizations ==
    {BasicHeader(Basic, up[1], up[2]) : up \in BasicPairs}
        \cup {BasicHeader(sp, DEMO_BASIC_USERNAME, DEMO_BASIC_PASSWORD) : sp \in BasicSpellings}
        \cup {Basic \o SP \o b64encode(DEMO_BASIC_USERNAME),      \* no colon
              Basic \o SP \o <<89, 87, 82>>,                      \* not base64
              Basic}                                              \* no payload

BearerAuthorizations ==
    {BearerHeader(sp, tok) :
        sp \in BearerSpellings,
        tok \in {DEMO_BEARER_TOKEN, DEMO_OAUTH_TOKEN} \cup FewMutations(DEMO_BEARER_TOKEN)}
        \cup {BearerHeader(Bearer, tok) :
                tok \in Mutations(DEMO_BEARER_TOKEN) \cup Mutations(DEMO_OAUTH_TOKEN)
                          \cup {DEMO_HEADER_API_KEY, DEMO_SESSION_TOKEN, <<>>}}
        \cup {Bearer, BearerHeader(Token, DEMO_BEARER_TOKEN)}

AuthorizationValues == {None, <<>>} \cup BasicAuthorizations \cup BearerAuthorizations

FewAuthorizations ==
    {None, BearerHeader(Bearer, DEMO_BEARER_TOKEN),
     BasicHeader(Basic, DEMO_BASIC_USERNAME, DEMO_BASIC_PASSWORD)}
        \cup {BearerHeader(Bearer, tok) : tok \in FewMutations(DEMO_BEARER_TOKEN)}

ApiKeyValues ==
    {None, <<>>, DEMO_HEADER_API_KEY, DEMO_BEARER_TOKEN} \cup Mutations(DEMO_HEADER_API_KEY)

FewApiKeys == {None, DEMO_HEADER_API_KEY} \cup FewMutations(DEMO_HEADER_API_KEY)

CookieValues ==
    {None, <<>>, DEMO_SESSION_TOKEN, DEMO_BEARER_TOKEN} \cup Mutations(DEMO_SESSION_TOKEN)

FewCookies == {None, DEMO_SESSION_TOKEN} \cup FewMutations(DEMO_SESSION_TOKEN)

HeaderSets ==
    (AuthorizationValues \X FewApiKeys \X FewCookies)
        \cup (FewAuthorizations \X ApiKeyValues \X FewCookies)
        \cup (FewAuthorizations \X FewApiKeys \X CookieValues)

Usernames ==
    {DEMO_BASIC_USERNAME, DEMO_OAUTH_USERNAME}
        \cup FewMutations(DEMO_BASIC_USERNAME) \cup FewMutations(DEMO_OAUTH_USERNAME)

Passwords ==
    {DEMO_BASIC_PASSWORD, DEMO_OAUTH_PASSWORD}
        \cup FewMutations(DEMO_BASIC_PASSWORD) \cup FewMutations(DEMO_OAUTH_PASSWORD)

ProtectedRequest(route, h) ==
    [NoRequest EXCEPT !.route = route, !.authorization = h[1],
                      !.x_api_key = h[2], !.session_token = h[3]]

IssuingRequest(route, username, password) ==
    [NoRequest EXCEPT !.route = route, !.username = username, !.password = password]

Requests ==
    {ProtectedRequest(route, h) : route \in ProtectedRoutes, h \in HeaderSets}
        \cup {IssuingRequest(route, u, p) :
                route \in IssuingRoutes, u \in Usernames, p \in Passwords}

\* The requests sent while one earlier answer is remembered: every route with
\* a missing, the valid and two invalid credentials.
ProbeRequests ==
    {ProtectedRequest(route, h) :
        route \in ProtectedRoutes,
        h \in FewAuthorizations \X {None, DEMO_HEADER_API_KEY} \X {None, DEMO_SESSION_TOKEN}}
        \cup {ProtectedRequest(route, <<BearerHeader(Bearer, DEMO_OAUTH_TOKEN), None, None>>) :
                route \in ProtectedRoutes}
        \cup {IssuingRequest(route, u, p) :
                route \in IssuingRoutes,
                u \in {DEMO_BASIC_USERNAME, DEMO_OAUTH_USERNAME},
                p \in {DEMO_BASIC_PASSWORD, DEMO_OAUTH_PASSWORD}}

(***************************************************************************)
(* The history variable: off, not yet set, or one answered request.        *)
(***************************************************************************)
ProbeOff == [req |-> [NoRequest EXCEPT !.route = "off"], resp |-> NoResponse]
ProbeUnset == [req |-> [NoRequest EXCEPT !.route = "unset"], resp |-> NoResponse]

\* The answer just given may be remembered, once.
Remember(resp) ==
    probe' \in (IF probe = ProbeUnset
                THEN {probe, [req |-> request, resp |-> resp]}
                ELSE {probe})

(***************************************************************************)
(* Actions.                                                                *)
(***************************************************************************)
Init ==
    /\ trust = TrustStore
    /\ request = NoRequest
    /\ response = NoResponse
    /\ cookie_jar = None
    /\ access_token = None
    /\ probe = ProbeOff

InitProbe ==
    /\ trust = TrustStore
    /\ request = NoRequest
    /\ response = NoResponse
    /\ cookie_jar = None
    /\ access_token = None
    /\ probe = ProbeUnset

\* The client sends a request of its choosing.
Send ==
    /\ request = NoRequest
    /\ \E r \in (IF probe = ProbeOff THEN Requests ELSE ProbeRequests) : request' = r
    /\ UNCHANGED <<trust, response, cookie_jar, access_token, probe>>

\* The client sends a request with what it was issued: its cookie, and its
\* access token as a bearer token.
SendIssued ==
    /\ request = NoRequest
    /\ cookie_jar # None \/ access_token # None
    /\ \E route \in ProtectedRoutes :
          request' = ProtectedRequest(route,
                        <<IF access_token = None THEN None
                          ELSE BearerHeader(Bearer, access_token),
                          None, cookie_jar>>)
    /\ UNCHANGED <<trust, response, cookie_jar, access_token, probe>>

\* A route answers the request in flight; no handler assigns a global.
Answer(route, resp) ==
    /\ request.route = route
    /\ response = NoResponse
    /\ response' = resp
    /\ Remember(resp)
    /\ UNCHANGED <<trust, request, cookie_jar, access_token>>

Handle_create_depot == Answer("create_depot", create_depot(trust, request))
Handle_bearer_profile == Answer("bearer_profile", bearer_profile(trust, request))
Handle_header_key_metrics == Answer("header_key_metrics", header_key_metrics(trust, request))
Handle_session_login == Answer("session_login", session_login(trust, request))
Handle_cookie_incidents == Answer("cookie_incidents", cookie_incidents(trust, request))
\* Mutant: issuing a token replaces the token the verifier expects.
Handle_oauth_token_rotating ==
    /\ request.route = "oauth_token"
    /\ response = NoResponse
    /\ response' = oauth_token(trust, request)
    /\ Remember(oauth_token(trust, request))
    /\ trust' = [trust EXCEPT !.DEMO_OAUTH_TOKEN =
                    IF response'.access_token # None THEN DEMO_SESSION_TOKEN ELSE @]
    /\ UNCHANGED <<request, cookie_jar, access_token>>

Handle_oauth_token == Answer("oauth_token", oauth_token(trust, request))
Handle_oauth_profile == Answer("oauth_profile", oauth_profile(trust, request))
Handle_create_dispatch == Answer("create_dispatch", create_dispatch(trust, request))
Handle_hybrid_alert == Answer("hybrid_alert", hybrid_alert(trust, request))

\* The client receives the answer and keeps the cookie or token it carries.
Deliver ==
    /\ response # NoResponse
    /\ cookie_jar' = IF response.set_cookie # None THEN response.set_cookie ELSE cookie_jar
    /\ access_token' = IF response.access_token # None THEN response.access_token
                       ELSE access_token
    /\ request' = NoRequest
    /\ response' = NoResponse
    /\ UNCHANGED <<trust, probe>>

Next ==
    \/ Send
    \/ SendIssued
    \/ Handle_create_depot
    \/ Handle_bearer_profile
    \/ Handle_header_key_metrics
    \/ Handle_session_login
    \/ Handle_cookie_incidents
    \/ Handle_oauth_token
    \/ Handle_oauth_profile
    \/ Handle_create_dispatch
    \/ Handle_hybrid_alert
    \/ Deliver

Spec == Init /\ [][Next]_vars

\* The same program with one earlier answer remembered.
SpecProbe == InitProbe /\ [][Next]_vars

(***************************************************************************)
(* Vocabulary of the properties.                                           *)
(***************************************************************************)
Answered == response # NoResponse

Succeeded == response.status_code \in {HTTP_200_OK, HTTP_201_CREATED}

\* The two reasons of an AuthFailure, read off the detail of the response.
MissingDetails ==
    {"Missing basic authentication credentials.", "Missing bearer token.",
     "Missing x-api-key header.", "Missing session_token cookie.",
     "Not authenticated"}

InvalidDetails ==
    {"Invalid basic authentication credentials.",
     "Invalid authentication credentials", "Invalid bearer token.",
     "Invalid x-api-key header.", "Invalid session_token cookie.",
     "Invalid OAuth2 access token."}

\* The request in flight carries the trust store's credential of a scheme.
PresentsBasic ==
    \E sp \in BasicSpellings :
        request.authorization =
            BasicHeader(sp, trust.DEMO_BASIC_USERNAME, trust.DEMO_BASIC_PASSWORD)

PresentsBearer(token) ==
    \E sp \in BearerSpellings : request.authorization = BearerHeader(sp, token)

PresentsApiKey == request.x_api_key = trust.DEMO_HEADER_API_KEY

PresentsCookie == request.session_token = trust.DEMO_SESSION_TOKEN

\* The request carries "<bearer> <token>" with a non-empty token, in any of
\* the spellings of the scheme; BearerTokenSent is that token.
SendsBearerToken ==
    /\ request.authorization # None
    /\ Len(request.authorization) > Len(Bearer) + 1
    /\ SubSeq(request.authorization, 1, Len(Bearer) + 1) \in {sp \o SP : sp \in BearerSpellings}

BearerTokenSent ==
    SubSeq(request.authorization, Len(Bearer) + 2, Len(request.authorization))

\* The Basic headers a client builds, each with the pair it encodes.
BasicCases ==
    {<<BasicHeader(sp, up[1], up[2]), up[1], up[2]>> :
        sp \in BasicSpellings, up \in BasicPairs}

(***************************************************************************)
(* C1.  A protected operation answers with a success (and a Principal)     *)
(* only if the request carried the credential its scheme verifies: the     *)
(* Basic pair, the bearer token, the API key, the session cookie, the      *)
(* OAuth2 token, or for the hybrid route the bearer token or the API key.  *)
(***************************************************************************)
C1_SuccessOnlyWithCredential ==
    (Answered /\ request.route \in ProtectedRoutes
        /\ (Succeeded \/ response.subject # "" \/ response.auth_method # ""))
    => /\ Succeeded
       /\ request.route = "create_depot" => PresentsBasic
       /\ request.route = "bearer_profile" => PresentsBearer(trust.DEMO_BEARER_TOKEN)
       /\ request.route = "header_key_metrics" => PresentsApiKey
       /\ request.route = "cookie_incidents" => PresentsCookie
       /\ request.route \in {"oauth_profile", "create_dispatch"}
             => PresentsBearer(trust.DEMO_OAUTH_TOKEN)
       /\ request.route = "hybrid_alert"
             => PresentsBearer(trust.DEMO_BEARER_TOKEN) \/ PresentsApiKey

\* A dispatch is created for a request that carries the OAuth2 token.
C1_Witness ==
    /\ Answered /\ request.route = "create_dispatch" /\ Succeeded
    /\ PresentsBearer(trust.DEMO_OAUTH_TOKEN)

(***************************************************************************)
(* C2.  On the hybrid route, a valid API key with an absent or invalid     *)
(* bearer token authenticates as "api_key_header", and a valid bearer      *)
(* token with a valid API key authenticates as "bearer".                   *)
(***************************************************************************)
C2_HybridFirstMatchWins ==
    (Answered /\ request.route = "hybrid_alert" /\ PresentsApiKey)
    => /\ Succeeded
       /\ response.auth_method =
             IF PresentsBearer(trust.DEMO_BEARER_TOKEN) THEN "bearer"
             ELSE "api_key_header"

(***************************************************************************)
(* C3.  On the hybrid route, a request whose bearer token and API key are  *)
(* both absent or invalid gets the Bearer strategy's failure signal: 401   *)
(* with WWW-Authenticate: Bearer.                                          *)
(***************************************************************************)
C3_HybridFailureIsBearers ==
    (Answered /\ request.route = "hybrid_alert"
        /\ ~PresentsBearer(trust.DEMO_BEARER_TOKEN) /\ ~PresentsApiKey)
    => /\ response.status_code = HTTP_401_UNAUTHORIZED
       /\ response.www_authenticate = "Bearer"

(***************************************************************************)
(* C4.  AllFailed: the hybrid route answered a request on which each of    *)
(* its strategies, Bearer then ApiKeyHeader, fails with an AuthFailure.    *)
(***************************************************************************)
AllFailed ==
    /\ Answered /\ request.route = "hybrid_alert"
    /\ require_bearer_token(trust, request).kind = "HTTPException"
    /\ require_api_key_header(trust, request).kind = "HTTPException"

\* C4 as claimed: in AllFailed the response carries the status and challenge
\* of the last strategy attempted, ApiKeyHeader.
C4_LastStrategysChallenge ==
    AllFailed
    => /\ response.status_code = require_api_key_header(trust, request).status_code
       /\ response.www_authenticate =
             require_api_key_header(trust, request).www_authenticate

\* C4 as amended: in AllFailed the response carries the status and challenge
\* of the first strategy of the order, Bearer (401, WWW-Authenticate: Bearer),
\* and not those of ApiKeyHeader (403, no challenge).
C4_FirstStrategysChallenge ==
    AllFailed
    => /\ response.status_code = require_bearer_token(trust, request).status_code
       /\ response.www_authenticate =
             require_bearer_token(trust, request).www_authenticate
       /\ response.status_code # require_api_key_header(trust, request).status_code
       /\ response.www_authenticate #
             require_api_key_header(trust, request).www_authenticate

\* Both strategies were given something and rejected it.
C4_Witness ==
    /\ AllFailed
    /\ SendsBearerToken /\ BearerTokenSent # trust.DEMO_BEARER_TOKEN
    /\ Truthy(request.x_api_key) /\ ~PresentsApiKey

(***************************************************************************)
(* C5.  On the Basic route, the pair of the trust store is accepted (the   *)
(* depot is created); a pair that differs in the username, the password    *)
(* or both is rejected with 401, a Basic challenge and reason Invalid.     *)
(***************************************************************************)
C5_BasicExactPair ==
    (Answered /\ request.route = "create_depot")
    => \A c \in BasicCases :
          request.authorization = c[1]
          => IF c[2] = trust.DEMO_BASIC_USERNAME /\ c[3] = trust.DEMO_BASIC_PASSWORD
             THEN response.status_code = HTTP_201_CREATED
             ELSE /\ response.status_code = HTTP_401_UNAUTHORIZED
                  /\ response.www_authenticate = "Basic"
                  /\ response.detail \in InvalidDetails

\* A pair with the right username and a password one character off is rejected.
C5_Witness ==
    /\ Answered /\ request.route = "create_depot"
    /\ \E p \in Mutations(DEMO_BASIC_PASSWORD) :
          /\ Len(p) = Len(DEMO_BASIC_PASSWORD)
          /\ request.authorization = BasicHeader(Basic, DEMO_BASIC_USERNAME, p)
    /\ response.detail = "Invalid basic authentication credentials."

(***************************************************************************)
(* C6.  A single-scheme route that does not authenticate a request fails   *)
(* as its scheme prescribes: the API-key routes with 403 and no            *)
(* WWW-Authenticate, the Basic route with 401 and a Basic challenge, the   *)
(* Bearer and OAuth2 routes with 401 and a Bearer challenge.               *)
(***************************************************************************)
C6_FailureSignals ==
    (Answered /\ ~Succeeded)
    => /\ request.route \in {"header_key_metrics", "cookie_incidents"}
             => /\ response.status_code = HTTP_403_FORBIDDEN
                /\ response.www_authenticate = ""
       /\ request.route = "create_depot"
             => /\ response.status_code = HTTP_401_UNAUTHORIZED
                /\ response.www_authenticate = "Basic"
       /\ request.route \in {"bearer_profile", "oauth_profile", "create_dispatch"}
             => /\ response.status_code = HTTP_401_UNAUTHORIZED
                /\ response.www_authenticate = "Bearer"

(***************************************************************************)
(* C7.  A request without an Authorization header fails on the Basic and   *)
(* on the Bearer route with reason Missing, whatever else it carries.      *)
(***************************************************************************)
C7_NoAuthorizationIsMissing ==
    (Answered /\ request.authorization = None)
    => /\ request.route = "create_depot"
             => response.detail = "Missing basic authentication credentials."
       /\ request.route = "bearer_profile"
             => response.detail = "Missing bearer token."
       /\ request.route \in {"create_depot", "bearer_profile"}
             => /\ response.detail \in MissingDetails
                /\ response.detail \notin InvalidDetails
                /\ response.status_code = HTTP_401_UNAUTHORIZED

\* No Authorization header, but a valid API key and a valid cookie.
C7_Witness ==
    /\ Answered /\ request.authorization = None
    /\ request.route = "bearer_profile"
    /\ PresentsApiKey /\ PresentsCookie
    /\ response.detail = "Missing bearer token."

(***************************************************************************)
(* C8.  A bearer token sent as "bearer", "Bearer" or "BEARER" is accepted  *)
(* on the Bearer route (and authenticates the hybrid route as "bearer")    *)
(* exactly when it equals the trust store's token; any other token is      *)
(* rejected as Invalid.                                                    *)
(***************************************************************************)
C8_BearerExactToken ==
    (Answered /\ SendsBearerToken)
    => /\ request.route = "bearer_profile"
             => IF BearerTokenSent = trust.DEMO_BEARER_TOKEN
                THEN Succeeded /\ response.auth_method = "bearer"
                ELSE /\ response.status_code = HTTP_401_UNAUTHORIZED
                     /\ response.detail = "Invalid bearer token."
       /\ request.route = "hybrid_alert"
             => IF BearerTokenSent = trust.DEMO_BEARER_TOKEN
                THEN Succeeded /\ response.auth_method = "bearer"
                ELSE response.auth_method # "bearer"
                       /\ (Succeeded \/ response.status_code = HTTP_401_UNAUTHORIZED)

(***************************************************************************)
(* C9.  The token endpoint returns a token for the right username and      *)
(* password and 401 without a token otherwise; once a token is issued,     *)
(* the OAuth2 routes accept that token and reject every other as Invalid.  *)
(***************************************************************************)
C9_OAuthIssuedTokenOnly ==
    /\ (Answered /\ request.route = "oauth_token")
          => IF request.username = trust.DEMO_OAUTH_USERNAME
                  /\ request.password = trust.DEMO_OAUTH_PASSWORD
             THEN Succeeded /\ response.access_token = trust.DEMO_OAUTH_TOKEN
             ELSE /\ response.status_code = HTTP_401_UNAUTHORIZED
                  /\ response.access_token = None
                  /\ response.www_authenticate = ""
    /\ (Answered /\ access_token # None /\ SendsBearerToken
            /\ request.route \in {"oauth_profile", "create_dispatch"})
          => IF BearerTokenSent = access_token
             THEN Succeeded
             ELSE /\ response.status_code = HTTP_401_UNAUTHORIZED
                  /\ response.detail = "Invalid OAuth2 access token."

(***************************************************************************)
(* C10.  No request changes the trust store, and a request that was        *)
(* answered once is answered the same way whenever it is sent again,       *)
(* whatever was verified or issued in between.                             *)
(***************************************************************************)
C10_SameAnswerSameStore ==
    /\ trust = TrustStore
    /\ (Answered /\ probe.req = request) => response = probe.resp

\* A request is answered again after a cookie and a token were issued, which
\* they were not when it was answered first.
C10_Witness ==
    /\ Answered /\ probe.req = request /\ response = probe.resp
    /\ cookie_jar # None /\ access_token # None
    /\ request.route = "oauth_profile" /\ Succeeded

====
